---- MODULE Spec2Model ----
(***************************************************************************)
(* The escrow program of programs/escrow: the three instructions           *)
(* make_offer, take_offer and refund_offer as they are written in          *)
(* src/handlers, run against the ledger that tests/helpers sets up         *)
(* (Alice and Bob, two token mints, four token accounts).                  *)
(*                                                                         *)
(* Amounts are counted in whole tokens (TOKEN_A = TOKEN_B = 10^9 base      *)
(* units in the tests); every amount the tests use is a multiple of one    *)
(* token and stays far below 2^64, so no arithmetic here can wrap.         *)
(***************************************************************************)
EXTENDS Integers, FiniteSets, Sequences, TLC

\* ------------------------------------------------------------------ bounds
\* Offer ids are 1..MaxId (generate_offer_id counts up from 1).
MaxId == 2
\* Number of transactions sent to the ledger in one run.
MaxTx == 3

\* --------------------------------------------------------------- constants
\* setup_escrow_test: Alice is minted 10 token A, Bob 5 token B.
AliceInitialTokenA == 10
BobInitialTokenB == 5

Users == {"alice", "bob"}
Mints == {"A", "B"}
Ids == 1..MaxId

\* token_mint_a / token_mint_b of the test environment
TokenMintA == "A"
TokenMintB == "B"

\* token_a_offered_amount / token_b_wanted_amount values the tests send
\* (0, 3 and 1000 token A; 0, 2 and 1000 token B)
OfferedAmounts == {0, 3, 1000}
WantedAmounts == {0, 2, 1000}

\* An address holds no account (<<>>) or one account (<<data>>).
NoAccount == <<>>

Account(data) == <<data>>

\* Result<()> of an instruction: the handlers return Ok(()) and nothing else.
Ok == "Ok"

\* ---------------------------------------------------------------- addresses
\* declare_id! / PROGRAM_ID
PROGRAM_ID == "8jR5GeNzeweq35Uo84kGP3v1NcBaZWH5u62k7PxN4T2y"

\* n with its k lowest bytes dropped (n >> 8k).
RECURSIVE DropBytes(_, _)
DropBytes(n, k) == IF k = 0 THEN n ELSE DropBytes(n \div 256, k - 1)

\* u64::to_le_bytes: the eight bytes of n, least significant first.
to_le_bytes(n) == [i \in 1..8 |-> DropBytes(n, i - 1) % 256]

\* The seeds of an offer address: the tag b"offer" and the id's bytes.
\* The maker is no part of them.
OfferSeedsWithoutId(id) == <<"offer">>

OfferSeeds(id) == <<"offer", to_le_bytes(id)>>

\* get_pda_and_bump hashes the seeds under the program id; an address is
\* written as what it is derived from (the bump is not used by the callers).
get_pda_and_bump(seeds, program_id) == [program |-> program_id, seeds |-> seeds]

\* get_associated_token_address: the token account of mint owned by owner.
get_associated_token_address(owner, mint) == [owner |-> owner, mint |-> mint]

\* offer_account of execute_make_offer, for every id
OfferAddresses ==
    [id \in Ids |-> get_pda_and_bump(OfferSeeds(id), PROGRAM_ID)]

OfferAddress(id) == OfferAddresses[id]

\* vault of execute_make_offer, for every id and mint
VaultAddresses ==
    [id \in Ids |-> [mint \in Mints |->
        get_associated_token_address(OfferAddress(id), mint)]]

VaultAddress(id, mint_a) == VaultAddresses[id][mint_a]

VARIABLES
    tokens,   \* tokens[u][m]: balance of u's associated token account of mint m
    offers,   \* offers[id]: the Offer account at the address derived from id
    vaults,   \* vaults[id]: balance of the vault of that offer address
    last,     \* the transaction sent last, with the Result the program returned
    book,     \* book[id]: the offer the callers hold after the Results so far
    sent      \* number of transactions sent

vars == <<tokens, offers, vaults, last, book, sent>>

\* The accounts the program can read and write.
Ledger == [tokens |-> tokens, offers |-> offers, vaults |-> vaults]

\* An entry of the callers' book: "none" until a make_offer under the id
\* succeeds, "open" with the terms its maker submitted from then on, "closed"
\* once a take_offer or refund_offer of it succeeded. maker_balance_before
\* is what the maker's account of mint a held when the offer was made.
BookEntry ==
    [state : {"none", "open", "closed"},
     maker : Users, token_mint_a : Mints, token_mint_b : Mints,
     token_a_offered_amount : OfferedAmounts,
     token_b_wanted_amount : WantedAmounts,
     maker_balance_before : Nat]

\* ------------------------------------------------------------ instructions
\* A make_offer that writes an Offer account at the address of every id
\* rather than at none.
make_offer_at_every_id(context, ledger) ==
    [result |-> Ok,
     ledger |-> [ledger EXCEPT !.offers = [id \in Ids |-> Account(context.maker)]]]

\* handlers::make_offer::make_offer: MakeOffer declares no accounts and the
\* body is Ok(()), so the ledger passes through untouched.
make_offer(context, ledger) == [result |-> Ok, ledger |-> ledger]

\* A take_offer that credits the taker one token of mint a out of nothing.
take_offer_minting(context, ledger) ==
    [result |-> Ok,
     ledger |-> [ledger EXCEPT
                    !.tokens[context.signer][context.token_mint_a] = @ + 1]]

\* handlers::take_offer::take_offer
take_offer(context, ledger) == [result |-> Ok, ledger |-> ledger]

\* A refund_offer that pays one token of mint b into the maker's account.
refund_offer_paying_mint_b(context, ledger) ==
    [result |-> Ok,
     ledger |-> [ledger EXCEPT
                    !.tokens[context.maker][context.token_mint_b] = @ + 1]]

\* handlers::refund_offer::refund_offer
refund_offer(context, ledger) == [result |-> Ok, ledger |-> ledger]

\* #[program] mod escrow: each entry point forwards to its handler.
escrow_make_offer(context, ledger) == make_offer(context, ledger)

escrow_take_offer(context, ledger) == take_offer(context, ledger)

escrow_refund_offer(context, ledger) == refund_offer(context, ledger)

\* ------------------------------------------------------------ transactions
\* build_make_offer_instruction: the accounts and arguments of make_offer.
\* The offer address and the vault are the ones derived from id.
MakeOfferInstruction(maker, id, mint_a, mint_b, offered, wanted) ==
    [op |-> "make_offer", signer |-> maker, maker |-> maker, id |-> id,
     token_mint_a |-> mint_a, token_mint_b |-> mint_b,
     holder |-> maker,
     token_a_offered_amount |-> offered, token_b_wanted_amount |-> wanted,
     offer |-> OfferAddress(id), vault |-> VaultAddress(id, mint_a)]

\* build_take_offer_instruction: taker signs; maker, the owner of
\* maker_token_account_b (holder) and the vault are whatever the caller
\* passes; id is the id the offer_account passed was derived from.
TakeOfferInstruction(taker, maker, holder, id, vault) ==
    [op |-> "take_offer", signer |-> taker, maker |-> maker, id |-> id,
     token_mint_a |-> TokenMintA, token_mint_b |-> TokenMintB,
     holder |-> holder,
     token_a_offered_amount |-> 0, token_b_wanted_amount |-> 0,
     offer |-> OfferAddress(id), vault |-> vault]

\* build_refund_offer_instruction: the account passed as maker signs; holder
\* owns the maker_token_account_a that is passed.
RefundOfferInstruction(maker, holder, id, vault) ==
    [op |-> "refund_offer", signer |-> maker, maker |-> maker, id |-> id,
     token_mint_a |-> TokenMintA, token_mint_b |-> TokenMintB,
     holder |-> holder,
     token_a_offered_amount |-> 0, token_b_wanted_amount |-> 0,
     offer |-> OfferAddress(id), vault |-> vault]

\* The terms of a make_offer the tests go on to take or refund: distinct
\* mints, positive amounts, and a maker who holds the amount offered (every
\* other make_offer of the tests is expected to fail and is not used again).
UsableTerms(instruction) ==
    /\ instruction.token_mint_a # instruction.token_mint_b
    /\ instruction.token_a_offered_amount > 0
    /\ instruction.token_b_wanted_amount > 0
    /\ tokens[instruction.maker][instruction.token_mint_a]
          >= instruction.token_a_offered_amount

\* What the callers hold after a transaction returned `result`:
\* execute_make_offer hands out the offer's address only when the
\* transaction succeeded, the callers go on to use it when its terms are
\* usable, and the tests expect the account to be closed once a take or a
\* refund succeeded.
BookAfter(instruction, result) ==
    LET id == instruction.id IN
    IF result # Ok THEN book
    ELSE IF instruction.op = "make_offer"
    THEN IF book[id].state = "open" \/ ~UsableTerms(instruction) THEN book
         ELSE [book EXCEPT ![id] =
                  [state |-> "open",
                   maker |-> instruction.maker,
                   token_mint_a |-> instruction.token_mint_a,
                   token_mint_b |-> instruction.token_mint_b,
                   token_a_offered_amount |-> instruction.token_a_offered_amount,
                   token_b_wanted_amount |-> instruction.token_b_wanted_amount,
                   maker_balance_before |->
                       tokens[instruction.maker][instruction.token_mint_a]]]
    ELSE IF book[id].state = "open" THEN [book EXCEPT ![id].state = "closed"]
         ELSE book

\* send_transaction_from_instructions: run one instruction, keep the
\* ledger it leaves and report its Result.
Send(instruction, outcome) ==
    /\ sent < MaxTx
    /\ sent' = sent + 1
    /\ tokens' = outcome.ledger.tokens
    /\ offers' = outcome.ledger.offers
    /\ vaults' = outcome.ledger.vaults
    /\ last' = instruction @@ [result |-> outcome.result]
    /\ book' = BookAfter(instruction, outcome.result)

\* execute_make_offer: the tests always pass the environment's token_mint_a
\* as mint a; token_mint_b is either mint (test_same_token_mints_fails).
MakeOffer ==
    \E maker \in Users, id \in Ids, mint_b \in Mints,
       offered \in OfferedAmounts, wanted \in WantedAmounts :
        LET instruction ==
                MakeOfferInstruction(maker, id, TokenMintA, mint_b, offered, wanted)
        IN Send(instruction, escrow_make_offer(instruction, Ledger))

\* execute_take_offer: the vault passed is the vault of some offer address.
TakeOffer ==
    \E taker \in Users, maker \in Users, holder \in Users, id \in Ids,
       vault_of \in Ids :
        LET instruction ==
                TakeOfferInstruction(taker, maker, holder, id,
                                     VaultAddress(vault_of, TokenMintA))
        IN Send(instruction, escrow_take_offer(instruction, Ledger))

\* execute_refund_offer: the vault passed is the vault of some offer address.
RefundOffer ==
    \E maker \in Users, holder \in Users, id \in Ids, vault_of \in Ids :
        LET instruction ==
                RefundOfferInstruction(maker, holder, id,
                                       VaultAddress(vault_of, TokenMintA))
        IN Send(instruction, escrow_refund_offer(instruction, Ledger))

\* setup_escrow_test: Alice holds 10 token A, Bob 5 token B, no offer exists.
Init ==
    /\ tokens = [u \in Users |-> [m \in Mints |->
                    IF u = "alice" /\ m = TokenMintA THEN AliceInitialTokenA
                    ELSE IF u = "bob" /\ m = TokenMintB THEN BobInitialTokenB
                    ELSE 0]]
    /\ offers = [id \in Ids |-> NoAccount]
    /\ vaults = [id \in Ids |-> NoAccount]
    /\ last = [op |-> "none", signer |-> "alice", maker |-> "alice", id |-> 1,
               token_mint_a |-> TokenMintA, token_mint_b |-> TokenMintB,
               holder |-> "alice",
               token_a_offered_amount |-> 0, token_b_wanted_amount |-> 0,
               offer |-> OfferAddress(1), vault |-> VaultAddress(1, TokenMintA),
               result |-> Ok]
    /\ book = [id \in Ids |->
                 [state |-> "none", maker |-> "alice",
                  token_mint_a |-> TokenMintA, token_mint_b |-> TokenMintB,
                  token_a_offered_amount |-> 0, token_b_wanted_amount |-> 0,
                  maker_balance_before |-> 0]]
    /\ sent = 0

Next == MakeOffer \/ TakeOffer \/ RefundOffer

Spec == Init /\ [][Next]_vars

TypeOK ==
    /\ tokens \in [Users -> [Mints -> Nat]]
    /\ \A id \in Ids : Len(offers[id]) <= 1
    /\ \A id \in Ids : vaults[id] = NoAccount \/ (Len(vaults[id]) = 1 /\ vaults[id][1] \in Nat)
    /\ last.op \in {"none", "make_offer", "take_offer", "refund_offer"}
    /\ last.result = Ok
    /\ book \in [Ids -> BookEntry]
    /\ sent \in 0..MaxTx

\* ------------------------------------------------------------------ claims
\* A step that sends one transaction of the given kind.
Sends(op) == sent' = sent + 1 /\ last'.op = op

\* The offer the callers hold under id came from a valid make_offer:
\* distinct mints, positive amounts, and a maker who held the amount offered.
WellFormed(id) ==
    /\ book[id].token_mint_a # book[id].token_mint_b
    /\ book[id].token_a_offered_amount > 0
    /\ book[id].token_b_wanted_amount > 0
    /\ book[id].maker_balance_before >= book[id].token_a_offered_amount

\* The offer under id is Open: its make_offer succeeded and no take_offer
\* or refund_offer of it has succeeded since.
OpenOffer(id) == book[id].state = "open" /\ WellFormed(id)

\* The offer under id is Closed: a take_offer or refund_offer of it succeeded.
ClosedOffer(id) == book[id].state = "closed" /\ WellFormed(id)

\* The Offer account make_offer is to write for the instruction tx.
OfferOf(tx) ==
    [id |-> tx.id, maker |-> tx.maker,
     token_mint_a |-> tx.token_mint_a, token_mint_b |-> tx.token_mint_b,
     token_a_offered_amount |-> tx.token_a_offered_amount,
     token_b_wanted_amount |-> tx.token_b_wanted_amount]

\* The instruction tx is a valid make_offer in the current state.
ValidMake(tx) ==
    /\ tx.token_mint_a # tx.token_mint_b
    /\ tx.token_a_offered_amount > 0
    /\ tx.token_b_wanted_amount > 0
    /\ tokens[tx.maker][tx.token_mint_a] >= tx.token_a_offered_amount
    /\ offers[tx.id] = NoAccount
    /\ book[tx.id].state # "open"

\* The instruction tx is a take_offer of the open offer under its id by
\* somebody other than its maker, paying the maker.
TakeOfOpen(tx) ==
    /\ OpenOffer(tx.id)
    /\ tx.signer # book[tx.id].maker
    /\ tx.maker = book[tx.id].maker
    /\ tx.holder = book[tx.id].maker
    /\ tx.vault = VaultAddress(tx.id, book[tx.id].token_mint_a)

\* No account of the ledger changes in the step.
LedgerUnchanged == UNCHANGED <<tokens, offers, vaults>>

\* C1: a take_offer of an open offer by a taker who holds at least
\* token_b_wanted_amount of mint b succeeds and, in that one step, credits
\* the taker token_a_offered_amount of mint a, credits the maker
\* token_b_wanted_amount of mint b, debits the taker token_b_wanted_amount
\* of mint b, and closes the offer account and its vault.
C1_TakeSwapsAndCloses ==
    [][ ( /\ Sends("take_offer")
          /\ TakeOfOpen(last')
          /\ tokens[last'.signer][book[last'.id].token_mint_b]
                >= book[last'.id].token_b_wanted_amount )
        => LET o == book[last'.id]
               taker == last'.signer
           IN /\ last'.result = Ok
              /\ tokens'[taker][o.token_mint_a]
                    = tokens[taker][o.token_mint_a] + o.token_a_offered_amount
              /\ tokens'[o.maker][o.token_mint_b]
                    = tokens[o.maker][o.token_mint_b] + o.token_b_wanted_amount
              /\ tokens'[taker][o.token_mint_b]
                    = tokens[taker][o.token_mint_b] - o.token_b_wanted_amount
              /\ offers'[last'.id] = NoAccount
              /\ vaults'[last'.id] = NoAccount ]_vars

\* C2: a valid make_offer (distinct mints, positive amounts, enough of mint
\* a in the maker's account, id not in use) succeeds, writes exactly one
\* Offer account, funds its vault with token_a_offered_amount and debits the
\* maker's account of mint a by exactly token_a_offered_amount.
C2_MakeCreatesAndDebits ==
    [][ (Sends("make_offer") /\ ValidMake(last'))
        => LET tx == last' IN
           /\ tx.result = Ok
           /\ offers' = [offers EXCEPT ![tx.id] = Account(OfferOf(tx))]
           /\ vaults' = [vaults EXCEPT ![tx.id] = Account(tx.token_a_offered_amount)]
           /\ tokens'[tx.maker][tx.token_mint_a]
                 = tokens[tx.maker][tx.token_mint_a] - tx.token_a_offered_amount ]_vars

\* C3: a refund_offer of an open offer by its maker succeeds, pays the
\* vault's whole balance (token_a_offered_amount) back into the maker's
\* account of mint a, and closes the offer; when the refund directly follows
\* the make_offer, the maker's balance of mint a is back at its value from
\* before the make_offer.
C3_RefundRestoresMaker ==
    [][ ( /\ Sends("refund_offer")
          /\ OpenOffer(last'.id)
          /\ last'.signer = book[last'.id].maker
          /\ last'.holder = book[last'.id].maker
          /\ last'.vault = VaultAddress(last'.id, book[last'.id].token_mint_a) )
        => LET o == book[last'.id] IN
           /\ last'.result = Ok
           /\ tokens'[o.maker][o.token_mint_a]
                 = tokens[o.maker][o.token_mint_a] + o.token_a_offered_amount
           /\ (last.op = "make_offer" /\ last.id = last'.id)
                 => tokens'[o.maker][o.token_mint_a] = o.maker_balance_before
           /\ offers'[last'.id] = NoAccount
           /\ vaults'[last'.id] = NoAccount ]_vars

\* C4: a refund_offer of an open offer signed by anybody but its maker fails
\* with Unauthorized, the Offer account is still there and no account changes.
C4_RefundByOtherUnauthorized ==
    [][ ( /\ Sends("refund_offer")
          /\ OpenOffer(last'.id)
          /\ last'.signer # book[last'.id].maker )
        => /\ last'.result = "Unauthorized"
           /\ offers'[last'.id] # NoAccount
           /\ LedgerUnchanged ]_vars

\* C5: a make_offer under the id of an open offer fails, whoever sends it;
\* the first offer's account is still there and no account changes.
C5_DuplicateIdFails ==
    [][ (Sends("make_offer") /\ OpenOffer(last'.id))
        => /\ last'.result # Ok
           /\ offers'[last'.id] # NoAccount
           /\ LedgerUnchanged ]_vars

\* C6: a make_offer whose two mints are the same fails with InvalidSameMint,
\* whatever the amounts, and changes no account.
C6_SameMintFails ==
    [][ (Sends("make_offer") /\ last'.token_mint_a = last'.token_mint_b)
        => /\ last'.result = "InvalidSameMint"
           /\ LedgerUnchanged ]_vars

\* C7: a make_offer with token_a_offered_amount = 0 or token_b_wanted_amount
\* = 0 fails, whatever the mints, and writes no Offer account.
C7_ZeroAmountFails ==
    [][ ( /\ Sends("make_offer")
          /\ (last'.token_a_offered_amount = 0 \/ last'.token_b_wanted_amount = 0) )
        => /\ last'.result # Ok
           /\ offers' = offers ]_vars

\* C8: a make_offer that passes the mint, amount and id checks fails with
\* InsufficientFunds when the maker's account of mint a holds less than
\* token_a_offered_amount, and changes no account.
C8_MakeInsufficientFundsFails ==
    [][ ( /\ Sends("make_offer")
          /\ last'.token_mint_a # last'.token_mint_b
          /\ last'.token_a_offered_amount > 0
          /\ last'.token_b_wanted_amount > 0
          /\ book[last'.id].state # "open"
          /\ tokens[last'.maker][last'.token_mint_a] < last'.token_a_offered_amount )
        => /\ last'.result = "InsufficientFunds"
           /\ LedgerUnchanged ]_vars

\* C9: a take_offer of an open offer by a taker who holds less than
\* token_b_wanted_amount of mint b fails with InsufficientFunds and changes
\* no account.
C9_TakeInsufficientFundsFails ==
    [][ ( /\ Sends("take_offer")
          /\ TakeOfOpen(last')
          /\ tokens[last'.signer][book[last'.id].token_mint_b]
                < book[last'.id].token_b_wanted_amount )
        => /\ last'.result = "InsufficientFunds"
           /\ LedgerUnchanged ]_vars

\* C10: once an offer has been closed by a successful take_offer or
\* refund_offer, every later take_offer or refund_offer of it fails.
C10_ConsumedAtMostOnce ==
    [][ ( /\ (Sends("take_offer") \/ Sends("refund_offer"))
          /\ ClosedOffer(last'.id) )
        => last'.result # Ok ]_vars

LedgerAfterMake(tx) ==
    [tokens |-> [tokens EXCEPT ![tx.maker][tx.token_mint_a] =
                    @ - tx.token_a_offered_amount],
     offers |-> [offers EXCEPT ![tx.id] = Account(OfferOf(tx))],
     vaults |-> [vaults EXCEPT ![tx.id] = Account(tx.token_a_offered_amount)]]

\* The ledger a take_offer of the open offer under tx.id is to leave: the
\* taker pays the maker, the vault pays the taker, offer and vault closed.
LedgerAfterTake(tx) ==
    LET o == book[tx.id]
        paid == [tokens EXCEPT ![tx.signer][o.token_mint_b] =
                    @ - o.token_b_wanted_amount]
        received == [paid EXCEPT ![o.maker][o.token_mint_b] =
                    @ + o.token_b_wanted_amount]
    IN [tokens |-> [received EXCEPT ![tx.signer][o.token_mint_a] =
                       @ + o.token_a_offered_amount],
        offers |-> [offers EXCEPT ![tx.id] = NoAccount],
        vaults |-> [vaults EXCEPT ![tx.id] = NoAccount]]

\* The ledger a refund_offer of the open offer under tx.id is to leave: the
\* vault pays the maker back, offer and vault closed.
LedgerAfterRefund(tx) ==
    LET o == book[tx.id] IN
    [tokens |-> [tokens EXCEPT ![o.maker][o.token_mint_a] =
                    @ + o.token_a_offered_amount],
     offers |-> [offers EXCEPT ![tx.id] = NoAccount],
     vaults |-> [vaults EXCEPT ![tx.id] = NoAccount]]

\* The transaction tx meets the preconditions of its instruction: a valid
\* make_offer, a take_offer of an open offer by a taker who can pay, or a
\* refund_offer of an open offer by its maker.
MeetsPreconditions(tx) ==
    \/ tx.op = "make_offer" /\ ValidMake(tx)
    \/ tx.op = "take_offer" /\ TakeOfOpen(tx)
          /\ tokens[tx.signer][book[tx.id].token_mint_b]
                >= book[tx.id].token_b_wanted_amount
    \/ tx.op = "refund_offer" /\ OpenOffer(tx.id)
          /\ tx.signer = book[tx.id].maker
          /\ tx.holder = book[tx.id].maker
          /\ tx.vault = VaultAddress(tx.id, book[tx.id].token_mint_a)

\* The step applied every effect of the transaction tx it sent.
AllEffectsApplied(tx) ==
    \/ tx.op = "make_offer" /\ Ledger' = LedgerAfterMake(tx)
    \/ tx.op = "take_offer" /\ Ledger' = LedgerAfterTake(tx)
    \/ tx.op = "refund_offer" /\ Ledger' = LedgerAfterRefund(tx)

\* C12: a transaction that meets its preconditions either succeeds and
\* applies all of its effects in the one step, or fails and leaves every
\* account as it was; a transaction that fails always leaves every account
\* as it was.
C12_AllOrNothing ==
    [][ sent' = sent + 1
        => /\ last'.result # Ok => LedgerUnchanged
           /\ MeetsPreconditions(last')
                 => \/ last'.result = Ok /\ AllEffectsApplied(last')
                    \/ last'.result # Ok /\ LedgerUnchanged ]_vars

\* The vault a take_offer or refund_offer of the offer under id has to pass.
VaultOf(id) == VaultAddress(id, book[id].token_mint_a)

\* C13: a take_offer of an open offer, or a refund_offer of it by its maker,
\* that passes a vault other than the one derived from the offer fails with
\* AddressMismatch; the Offer account is still there and no account changes.
C13_WrongVaultRejected ==
    [][ ( /\ \/ Sends("take_offer")
             \/ Sends("refund_offer") /\ last'.signer = book[last'.id].maker
          /\ OpenOffer(last'.id)
          /\ last'.vault # VaultOf(last'.id) )
        => /\ last'.result = "AddressMismatch"
           /\ offers'[last'.id] # NoAccount
           /\ LedgerUnchanged ]_vars

ViolatedPreconditions(tx) ==
    IF tx.op = "make_offer" THEN
        {e \in {"InvalidSameMint", "InvalidOfferedAmount", "InvalidWantedAmount",
                "DuplicateOfferId", "InsufficientFunds"} :
            \/ e = "InvalidSameMint" /\ tx.token_mint_a = tx.token_mint_b
            \/ e = "InvalidOfferedAmount" /\ tx.token_a_offered_amount = 0
            \/ e = "InvalidWantedAmount" /\ tx.token_b_wanted_amount = 0
            \/ e = "DuplicateOfferId" /\ book[tx.id].state = "open"
            \/ e = "InsufficientFunds"
                  /\ tokens[tx.maker][tx.token_mint_a] < tx.token_a_offered_amount}
    ELSE IF tx.op = "take_offer" /\ OpenOffer(tx.id) THEN
        {e \in {"AddressMismatch", "InsufficientFunds"} :
            \/ e = "AddressMismatch" /\ tx.vault # VaultOf(tx.id)
            \/ e = "InsufficientFunds"
                  /\ tokens[tx.signer][book[tx.id].token_mint_b]
                        < book[tx.id].token_b_wanted_amount}
    ELSE IF tx.op = "refund_offer" /\ OpenOffer(tx.id) THEN
        {e \in {"Unauthorized", "AddressMismatch"} :
            \/ e = "Unauthorized" /\ tx.signer # book[tx.id].maker
            \/ e = "AddressMismatch" /\ tx.vault # VaultOf(tx.id)}
    ELSE {}

\* C15: a transaction that violates a listed precondition never succeeds: it
\* returns the error code of a precondition it violates.
C15_ViolationSurfacedAsItsError ==
    [][ (sent' = sent + 1 /\ ViolatedPreconditions(last') # {})
        => last'.result \in ViolatedPreconditions(last') ]_vars

\* The error of the first precondition of make_offer that tx violates, in
\* the order same mint, offered amount, wanted amount, id in use, funds;
\* Ok when it violates none.
FirstMakeError(tx) ==
    IF tx.token_mint_a = tx.token_mint_b THEN "InvalidSameMint"
    ELSE IF tx.token_a_offered_amount = 0 THEN "InvalidOfferedAmount"
    ELSE IF tx.token_b_wanted_amount = 0 THEN "InvalidWantedAmount"
    ELSE IF book[tx.id].state = "open" THEN "DuplicateOfferId"
    ELSE IF tokens[tx.maker][tx.token_mint_a] < tx.token_a_offered_amount
         THEN "InsufficientFunds"
    ELSE Ok

\* C16: a make_offer that violates a precondition reports the error of the
\* first one it violates, in the order same mint, offered amount, wanted
\* amount, id in use, funds.
C16_MakeReportsFirstViolation ==
    [][ (Sends("make_offer") /\ FirstMakeError(last') # Ok)
        => last'.result = FirstMakeError(last') ]_vars

\* The step is a successful take_offer or refund_offer of the offer under id.
ClosesOffer(id) ==
    /\ Sends("take_offer") \/ Sends("refund_offer")
    /\ last'.id = id
    /\ last'.result = Ok

OfferOfBook(id) ==
    [id |-> id, maker |-> book[id].maker,
     token_mint_a |-> book[id].token_mint_a,
     token_mint_b |-> book[id].token_mint_b,
     token_a_offered_amount |-> book[id].token_a_offered_amount,
     token_b_wanted_amount |-> book[id].token_b_wanted_amount]

C19_MakeStoresInputsLaterUsed ==
    [][ /\ (Sends("make_offer") /\ last'.result = Ok /\ ValidMake(last'))
             => offers'[last'.id] = Account(OfferOf(last'))
        /\ (Sends("take_offer") /\ last'.result = Ok
              /\ offers[last'.id] # NoAccount)
             => LET stored == offers[last'.id][1]
                    taker == last'.signer
                IN /\ tokens[taker][stored.token_mint_b] - tokens'[taker][stored.token_mint_b]
                         = IF taker = stored.maker THEN 0
                           ELSE stored.token_b_wanted_amount
                   /\ tokens'[taker][stored.token_mint_a] - tokens[taker][stored.token_mint_a]
                         = stored.token_a_offered_amount
        /\ (Sends("refund_offer") /\ last'.result = Ok
              /\ offers[last'.id] # NoAccount)
             => last'.signer = offers[last'.id][1].maker ]_vars

\* C20: a valid make_offer under the id of a closed offer succeeds and
\* opens a fresh offer (account written, vault funded), while a make_offer
\* under the id of an offer that is still open fails.
C20_IdFreeAgainAfterClose ==
    [][ Sends("make_offer")
        => /\ (ClosedOffer(last'.id) /\ ValidMake(last'))
                => /\ last'.result = Ok
                   /\ offers'[last'.id] = Account(OfferOf(last'))
                   /\ vaults'[last'.id] = Account(last'.token_a_offered_amount)
           /\ OpenOffer(last'.id) => last'.result # Ok ]_vars

\* C21: a transaction on the offer under one id, whether it succeeds or
\* fails, leaves the Offer account, the vault and the open/closed state of
\* the offer under every other id as they were.
C21_DistinctOffersDoNotInteract ==
    [][ sent' = sent + 1
        => \A j \in Ids \ {last'.id} :
              /\ offers'[j] = offers[j]
              /\ vaults'[j] = vaults[j]
              /\ book'[j].state = book[j].state ]_vars

\* A take_offer or refund_offer has just closed one offer while the offer
\* under another id is open.
C21_ClosedBesideOpenOffer ==
    /\ last.op \in {"take_offer", "refund_offer"}
    /\ ClosedOffer(last.id)
    /\ \E j \in Ids \ {last.id} : OpenOffer(j)

\* The units of mint held in the token accounts of the given users.
RECURSIVE HeldBy(_, _)
HeldBy(users, mint) ==
    IF users = {} THEN 0
    ELSE LET u == CHOOSE x \in users : TRUE
         IN tokens[u][mint] + HeldBy(users \ {u}, mint)

\* The units held in the vaults of the given offer ids.
RECURSIVE HeldInVaults(_)
HeldInVaults(ids) ==
    IF ids = {} THEN 0
    ELSE LET id == CHOOSE x \in ids : TRUE
         IN (IF vaults[id] = NoAccount THEN 0 ELSE vaults[id][1])
            + HeldInVaults(ids \ {id})

\* C22: after any sequence of make_offer, take_offer and refund_offer
\* attempts, the units of mint a in all token accounts and all vaults, and
\* the units of mint b in all token accounts, are what was minted at setup
\* (every vault is a vault of mint a).
C22_SupplyConserved ==
    /\ HeldBy(Users, TokenMintA) + HeldInVaults(Ids) = AliceInitialTokenA
    /\ HeldBy(Users, TokenMintB) = BobInitialTokenB

\* An offer was made and closed, and a refund_offer of it was sent after.
C22_AfterMakeCloseRefund ==
    /\ last.op = "refund_offer"
    /\ sent >= 3
    /\ ClosedOffer(last.id)

\* C23: in the step that closes an open offer, either a refund_offer
\* credits the offer's maker token_a_offered_amount of mint a, or a
\* take_offer credits the offer's maker token_b_wanted_amount of mint b
\* (the taker being somebody else, so that the credit is not the maker's
\* own payment).
C23_MakerPaidOnClose ==
    [][ \A id \in Ids :
          ( /\ OpenOffer(id)
            /\ ClosesOffer(id)
            /\ Sends("take_offer") => last'.signer # book[id].maker )
          => LET o == book[id] IN
             \/ /\ Sends("refund_offer")
                /\ tokens'[o.maker][o.token_mint_a]
                      = tokens[o.maker][o.token_mint_a] + o.token_a_offered_amount
             \/ /\ Sends("take_offer")
                /\ tokens'[o.maker][o.token_mint_b]
                      = tokens[o.maker][o.token_mint_b] + o.token_b_wanted_amount ]_vars

\* C24: a take_offer of an open offer, by a taker other than its maker,
\* that passes as maker, or as owner of the account to be paid, anybody but
\* the offer's maker does not succeed; and a take_offer that credits the
\* taker mint a credits the offer's maker token_b_wanted_amount of mint b
\* in the same step.
C24_TakePaysOnlyStoredMaker ==
    [][ ( /\ Sends("take_offer")
          /\ OpenOffer(last'.id)
          /\ last'.signer # book[last'.id].maker )
        => LET o == book[last'.id]
               taker == last'.signer
           IN /\ (last'.maker # o.maker \/ last'.holder # o.maker)
                    => last'.result # Ok
              /\ tokens'[taker][o.token_mint_a] > tokens[taker][o.token_mint_a]
                    => tokens'[o.maker][o.token_mint_b]
                          = tokens[o.maker][o.token_mint_b] + o.token_b_wanted_amount ]_vars

\* C25: a successful make_offer or refund_offer changes no token account
\* other than the maker's account of mint a, and no Offer account or vault
\* other than those of its own offer.
C25_MakeRefundFrame ==
    [][ ( /\ Sends("make_offer") \/ Sends("refund_offer")
          /\ last'.result = Ok )
        => LET tx == last' IN
           /\ \A u \in Users, m \in Mints :
                 (u # tx.maker \/ m # tx.token_mint_a)
                 => tokens'[u][m] = tokens[u][m]
           /\ \A j \in Ids \ {tx.id} :
                 offers'[j] = offers[j] /\ vaults'[j] = vaults[j] ]_vars

\* A valid make_offer succeeded and its maker's refund_offer of it, sent
\* next, succeeded too.
C25_MadeThenRefunded ==
    /\ sent = 2
    /\ last.op = "refund_offer"
    /\ last.result = Ok
    /\ ClosedOffer(last.id)
    /\ last.signer = book[last.id].maker
    /\ last.holder = book[last.id].maker
    /\ last.vault = VaultOf(last.id)

====
